---- MODULE Spec2Model ----
(***************************************************************************)
(* The fixed-table allocation tracker of memory_manager.c, as a state      *)
(* machine.  One action per public operation; every action is the whole    *)
(* call, from entry to return (or to the point where the process dies).    *)
(*                                                                         *)
(* The underlying allocator (malloc/free of the C library) is modelled by  *)
(* its contract: malloc returns NULL or an address that is not live, free  *)
(* of a live address releases it, free of an address that is not live is   *)
(* undefined behaviour, modelled as a choice between the process aborting  *)
(* and the call returning with the allocator unchanged.                    *)
(*                                                                         *)
(* The filename and line_number fields of a block are diagnostics that no  *)
(* operation reads back; they are not part of the model's block record.    *)
(***************************************************************************)
EXTENDS Integers, Sequences, FiniteSets, TLC

\* ---------------------------------------------------------------- bounds
\* The table has 1000 slots in memory_manager.h; the model keeps the code's
\* name and scales the capacity down.
MAX_TRACKED_BLOCKS == 2
\* Number of distinct addresses the underlying allocator can hand out.
NumAddr == 3
\* Cap on the static timestamp counter: no allocation succeeds beyond it.
MaxTimestamp == 3

\* ------------------------------------------------------------- constants
NULL == 0
MEMORY_TYPE_STATIC == 0
MEMORY_TYPE_DYNAMIC == 1
MEMORY_TYPE_TEMPORARY == 2
MEMORY_STATUS_ALLOCATED == 0
MEMORY_STATUS_FREED == 1
MEMORY_STATUS_CORRUPTED == 2

Addr == 1 .. NumAddr
Slots == 0 .. (MAX_TRACKED_BLOCKS - 1)
\* The requests the callers of the model make, as <<size, type>>: a
\* zero-byte request, and the two of the round trip (20 bytes Dynamic, 50
\* bytes Temporary).
Requests ==
    {<<0, MEMORY_TYPE_DYNAMIC>>, <<20, MEMORY_TYPE_DYNAMIC>>, <<50, MEMORY_TYPE_TEMPORARY>>}
\* The caller holds one allocation it made itself, not through the tracker,
\* when the tracker is first used.
Preallocated == {NumAddr}

\* size_t arithmetic is unsigned and wraps.  The modulus is scaled to the
\* integers of the model checker; what matters is that 0 - 1 is not -1.
SizeModulus == 2 ^ 30
SizeT(x) == x % SizeModulus

VARIABLES
    g_memory_tracker,   \* the MemoryTracker: blocks, current_block_count, total_allocated_memory
    timestamp,          \* the static counter of get_current_timestamp
    heap,               \* addresses live in the underlying allocator
    halted,             \* the process has died
    last,               \* the call that just returned (or died): arguments, result, path taken
    returned,           \* history: every handle safe_memory_allocate has returned
    foreign,            \* history: safe_memory_free was given a handle allocate never returned
    orphaned,           \* history: handles tracked when memory_manager_init ran, not freed since
    grant,              \* history: handle -> size it was granted with, since the last init
    net,                \* history: successful allocates minus tracked frees, since the last init
    streak,             \* history: consecutive non-failing allocate calls since init, or -1
    scenario,           \* history: progress through init; allocate(20); allocate(50); free; free
    freed,              \* history: handle -> "no", "spent" (freed since it was returned) or "regranted"
    stamped,            \* history: the timestamp the latest successful allocate stored
    recover,            \* history: progress through allocate failing at capacity; free; allocate
    frame,              \* the safe_memory_free call in progress, when it is run statement by statement
    tool_tracker,       \* the list of memory_management_tool.c, head first, run side by side
    tool_last           \* what the list tracker returned and what its report computed

vars == <<g_memory_tracker, timestamp, heap, halted, last, returned, foreign,
          orphaned, grant, net, streak, scenario, freed, stamped, recover,
          frame, tool_tracker, tool_last>>

\* --------------------------------------------------------- the table
\* A MemoryBlock after memset(block, 0, sizeof(MemoryBlock)).
EmptyBlock ==
    [pointer |-> NULL, size |-> 0, type |-> 0, status |-> 0, timestamp |-> 0]

\* The MemoryTracker after memset(&g_memory_tracker, 0, sizeof(MemoryTracker)).
ZeroTracker ==
    [blocks |-> [i \in Slots |-> EmptyBlock],
     current_block_count |-> 0,
     total_allocated_memory |-> 0]

RECURSIVE ScanAvailable(_, _)
ScanAvailable(blocks, i) ==
    IF i >= MAX_TRACKED_BLOCKS THEN -1
    ELSE IF blocks[i].pointer = NULL THEN i
    ELSE ScanAvailable(blocks, i + 1)

\* A scan that keeps going and returns the last empty slot it saw.
find_available_slot_last(blocks) ==
    IF \A i \in Slots : blocks[i].pointer # NULL THEN -1
    ELSE CHOOSE i \in Slots :
            /\ blocks[i].pointer = NULL
            /\ \A j \in Slots : blocks[j].pointer = NULL => j <= i

\* find_available_slot: the first slot whose pointer is NULL, or -1.
find_available_slot(blocks) == ScanAvailable(blocks, 0)

RECURSIVE ScanPointer(_, _, _)
ScanPointer(blocks, memory, i) ==
    IF i >= MAX_TRACKED_BLOCKS THEN -1
    ELSE IF blocks[i].pointer = memory THEN i
    ELSE ScanPointer(blocks, memory, i + 1)

\* A lookup that falls back to slot 0 when no slot holds `memory`.
FindBlock_default_first(blocks, memory) ==
    IF ScanPointer(blocks, memory, 0) = -1 THEN 0 ELSE ScanPointer(blocks, memory, 0)

\* The loop of safe_memory_free: the first slot holding `memory`, or -1.
FindBlock(blocks, memory) == ScanPointer(blocks, memory, 0)

\* A capacity check that lets one request too many through.
CapacityReached_off_by_one(count) == count > MAX_TRACKED_BLOCKS

\* The capacity check of safe_memory_allocate.
CapacityReached(count) == count >= MAX_TRACKED_BLOCKS

\* No size validation at all.
ZeroSize_unchecked(size) == FALSE

\* The size validation of safe_memory_allocate.
ZeroSize(size) == size = 0

\* A counter that is a plain local: every call starts from 0 again.
get_current_timestamp_not_static(ts) == 1

\* get_current_timestamp: return ++timestamp, on the static counter.
get_current_timestamp(ts) == ts + 1

\* The record safe_memory_allocate writes into the slot it found.
PopulateBlock(memory, size, type, ts) ==
    [pointer |-> memory, size |-> size, type |-> type,
     status |-> MEMORY_STATUS_ALLOCATED, timestamp |-> ts]

\* The total raised by one per block instead of by the size.
TotalAfterAllocate_count_blocks(total, size) == SizeT(total + 1)

\* g_memory_tracker.total_allocated_memory += size
TotalAfterAllocate(total, size) == SizeT(total + size)

\* The count left as it was when a block is recorded.
CountAfterAllocate_kept(count) == count

\* g_memory_tracker.current_block_count++
CountAfterAllocate(count) == SizeT(count + 1)

\* The total left as it was when a block is freed.
TotalAfterFree_kept(total, size) == total

\* g_memory_tracker.total_allocated_memory -= block->size
TotalAfterFree(total, size) == SizeT(total - size)

\* The count left as it was when a block is freed.
CountAfterFree_kept(count) == count

\* g_memory_tracker.current_block_count--
CountAfterFree(count) == SizeT(count - 1)

\* The block cleared except for its pointer.
ClearedBlock_keeps_pointer(block) == [EmptyBlock EXCEPT !.pointer = block.pointer]

\* The block marked freed but never cleared.
ClearedBlock_status_only(block) == [block EXCEPT !.status = MEMORY_STATUS_FREED]

\* The block after block->status = MEMORY_STATUS_FREED and then
\* memset(block, 0, sizeof(MemoryBlock)).
ClearedBlock(block) == EmptyBlock

\* An init that resets the counters and leaves the slots.
InitTracker_counters_only(tracker) ==
    [tracker EXCEPT !.current_block_count = 0, !.total_allocated_memory = 0]

\* memory_manager_init: the whole tracker zeroed.
InitTracker(tracker) == ZeroTracker

\* One line of the report: the fields generate_memory_report prints.
ReportEntry(blocks, i) ==
    [index |-> i, pointer |-> blocks[i].pointer, size |-> blocks[i].size,
     type |-> blocks[i].type, status |-> blocks[i].status]

RECURSIVE ReportFrom(_, _)
ReportFrom(blocks, i) ==
    IF i >= MAX_TRACKED_BLOCKS THEN << >>
    ELSE (IF blocks[i].pointer # NULL THEN <<ReportEntry(blocks, i)>> ELSE << >>)
         \o ReportFrom(blocks, i + 1)

\* A report loop that starts at slot 1.
ReportEntries_skip_first(blocks) == ReportFrom(blocks, 1)

\* The loop of generate_memory_report: one entry per slot with a pointer.
ReportEntries(blocks) == ReportFrom(blocks, 0)

get_total_allocated_memory == g_memory_tracker.total_allocated_memory
get_current_block_count == g_memory_tracker.current_block_count

\* ------------------------------------------------ the underlying allocator
\* What malloc may return: NULL, or an address that is not live.  A
\* successful result also needs a timestamp left below the model's cap.
malloc_results(live, ts) ==
    {NULL} \cup {a \in Addr \ live : ts < MaxTimestamp}

\* What free(p) may do: release a live address; on an address that is not
\* live the behaviour is undefined: the process aborts, or the call returns
\* and the allocator is as before.
free_outcomes(live, p) ==
    IF p \in live THEN {"released"} ELSE {"abort", "ignored"}

heap_after_free(live, p) == live \ {p}

\* ------------------------------------------------------ call records
NoReport == [count |-> 0, total |-> 0, entries |-> << >>]

\* What the caller knows about the handle it passes to safe_memory_free.
HandleClass(memory) ==
    IF memory = NULL THEN "null"
    ELSE IF memory \in orphaned THEN "orphan"
    ELSE IF grant[memory] # 0 THEN "granted"
    ELSE IF memory \in heap /\ memory \notin returned THEN "extern"
    ELSE IF memory \in heap THEN "reused"
    ELSE "stale"

Call(op, arg, ret, path, mallocs, releases, bad, handle, twice, out) ==
    [op |-> op, arg |-> arg, ret |-> ret, path |-> path, mallocs |-> mallocs,
     releases |-> releases, badRelease |-> bad, handle |-> handle,
     twice |-> twice, out |-> out]

NoCall == Call("none", 0, NULL, "none", 0, << >>, FALSE, "null", FALSE, NoReport)

NoScenario == [step |-> 0, h1 |-> NULL, h2 |-> NULL]

NoRecover == [step |-> 0, slot |-> -1]

NoFrame ==
    [memory |-> NULL, i |-> -1, next |-> 0, handle |-> "null", twice |-> FALSE,
     released |-> FALSE, bad |-> FALSE, total0 |-> 0, count0 |-> 0, size0 |-> 0]

NoToolCall == [block_count |-> 0, total_allocated |-> 0, ret |-> NULL]

Init ==
    /\ g_memory_tracker = ZeroTracker
    /\ timestamp = 0
    /\ heap = Preallocated
    /\ halted = FALSE
    /\ last = NoCall
    /\ returned = {}
    /\ foreign = FALSE
    /\ orphaned = {}
    /\ grant = [a \in Addr |-> 0]
    /\ net = 0
    /\ streak = 0
    /\ scenario = NoScenario
    /\ freed = [a \in Addr |-> "no"]
    /\ stamped = 0
    /\ recover = NoRecover
    /\ frame = NoFrame
    /\ tool_tracker = << >>
    /\ tool_last = NoToolCall

Tracked(blocks) == {blocks[i].pointer : i \in Slots} \ {NULL}

\* ------------------------------------------------------------ operations
memory_manager_init ==
    /\ ~halted
    /\ g_memory_tracker' = InitTracker(g_memory_tracker)
    /\ last' = Call("init", 0, NULL, "init", 0, << >>, FALSE, "null", FALSE, NoReport)
    /\ orphaned' = orphaned \cup Tracked(g_memory_tracker.blocks)
    /\ grant' = [a \in Addr |-> 0]
    /\ net' = 0
    /\ streak' = 0
    /\ scenario' = [step |-> 1, h1 |-> NULL, h2 |-> NULL]
    /\ recover' = NoRecover
    /\ UNCHANGED <<timestamp, heap, halted, returned, foreign, freed, stamped>>

\* The history of a safe_memory_allocate call that returned `memory`.
AllocateHistory(size, type, memory, path) ==
    /\ returned' = IF memory # NULL THEN returned \cup {memory} ELSE returned
    /\ grant' = IF memory # NULL THEN [grant EXCEPT ![memory] = size] ELSE grant
    /\ net' = IF memory # NULL THEN net + 1 ELSE net
    /\ streak' = IF size # 0 /\ path # "oom" /\ streak \in 0 .. MAX_TRACKED_BLOCKS
                 THEN streak + 1 ELSE -1
    /\ scenario' =
         IF scenario.step = 1 /\ size = 20 /\ type = MEMORY_TYPE_DYNAMIC /\ memory # NULL
         THEN [step |-> 2, h1 |-> memory, h2 |-> NULL]
         ELSE IF scenario.step = 2 /\ size = 50 /\ type = MEMORY_TYPE_TEMPORARY
                 /\ memory # NULL
         THEN [scenario EXCEPT !.step = 3, !.h2 = memory]
         ELSE NoScenario
    /\ freed' = IF memory # NULL /\ freed[memory] = "spent"
                THEN [freed EXCEPT ![memory] = "regranted"] ELSE freed
    /\ stamped' = IF memory # NULL
                  THEN g_memory_tracker'.blocks[
                           FindBlock(g_memory_tracker'.blocks, memory)].timestamp
                  ELSE stamped
    /\ recover' =
         IF path = "full" THEN [step |-> 1, slot |-> -1]
         ELSE IF recover.step = 2 /\ memory # NULL THEN [recover EXCEPT !.step = 3]
         ELSE NoRecover
    /\ UNCHANGED <<foreign, orphaned>>

AllocateReturn(size, type, memory, path, mallocs, releases) ==
    /\ last' = Call("allocate", size, memory, path, mallocs, releases, FALSE,
                    "null", FALSE, NoReport)
    /\ AllocateHistory(size, type, memory, path)

\* safe_memory_allocate(size, filename, line_number, type), entry to return.
allocate_call(size, type) ==
        IF ZeroSize(size)
        THEN /\ AllocateReturn(size, type, NULL, "zero", 0, << >>)
             /\ UNCHANGED <<g_memory_tracker, timestamp, heap, halted>>
        ELSE IF CapacityReached(g_memory_tracker.current_block_count)
        THEN /\ AllocateReturn(size, type, NULL, "full", 0, << >>)
             /\ UNCHANGED <<g_memory_tracker, timestamp, heap, halted>>
        ELSE \E memory \in malloc_results(heap, timestamp) :
            IF memory = NULL
            THEN /\ AllocateReturn(size, type, NULL, "oom", 1, << >>)
                 /\ UNCHANGED <<g_memory_tracker, timestamp, heap, halted>>
            ELSE LET slot == find_available_slot(g_memory_tracker.blocks) IN
                IF slot = -1
                THEN \* free(memory): acquired and released again
                     /\ AllocateReturn(size, type, NULL, "noslot", 1, <<memory>>)
                     /\ UNCHANGED <<g_memory_tracker, timestamp, heap, halted>>
                ELSE /\ g_memory_tracker' =
                          [blocks |-> [g_memory_tracker.blocks EXCEPT ![slot] =
                                          PopulateBlock(memory, size, type,
                                              get_current_timestamp(timestamp))],
                           current_block_count |->
                               CountAfterAllocate(g_memory_tracker.current_block_count),
                           total_allocated_memory |->
                               TotalAfterAllocate(g_memory_tracker.total_allocated_memory,
                                                  size)]
                     /\ timestamp' = get_current_timestamp(timestamp)
                     /\ heap' = heap \cup {memory}
                     /\ AllocateReturn(size, type, memory, "ok", 1, << >>)
                     /\ UNCHANGED halted

safe_memory_allocate ==
    /\ ~halted
    /\ \E request \in Requests : allocate_call(request[1], request[2])

\* The history of a safe_memory_free(memory) call.
FreeHistory(memory, path) ==
    /\ foreign' = (foreign \/ (memory # NULL /\ memory \notin returned))
    /\ orphaned' = orphaned \ {memory}
    /\ grant' = IF path = "tracked" THEN [grant EXCEPT ![memory] = 0] ELSE grant
    /\ net' = IF path = "tracked" THEN net - 1 ELSE net
    /\ streak' = -1
    /\ scenario' =
         IF scenario.step = 3 /\ memory = scenario.h1 THEN [scenario EXCEPT !.step = 4]
         ELSE IF scenario.step = 4 /\ memory = scenario.h2
         THEN [scenario EXCEPT !.step = 5]
         ELSE NoScenario
    /\ freed' = IF memory \in returned THEN [freed EXCEPT ![memory] = "spent"] ELSE freed
    /\ recover' =
         IF recover.step = 1 /\ path = "tracked"
         THEN [step |-> 2, slot |-> FindBlock(g_memory_tracker.blocks, memory)]
         ELSE NoRecover
    /\ UNCHANGED <<returned, stamped>>

FreeRecord(memory, path, releases, bad, handle, twice) ==
    Call("free", memory, NULL, path, 0, releases, bad, handle, twice, NoReport)

\* The call is a free of the handle the call before it freed.
FreedTwice(memory) == last.op = "free" /\ last.arg = memory /\ memory # NULL

FreeReturn(memory, path, releases, bad) ==
    /\ last' = FreeRecord(memory, path, releases, bad, HandleClass(memory),
                          FreedTwice(memory))
    /\ FreeHistory(memory, path)

safe_memory_free ==
    /\ ~halted
    /\ \E memory \in Addr \cup {NULL} :
        IF memory = NULL
        THEN /\ FreeReturn(memory, "null", << >>, FALSE)
             /\ UNCHANGED <<g_memory_tracker, timestamp, heap, halted>>
        ELSE LET i == FindBlock(g_memory_tracker.blocks, memory)
                 block == g_memory_tracker.blocks[i]
                 total == TotalAfterFree(g_memory_tracker.total_allocated_memory,
                                         block.size)
                 count == CountAfterFree(g_memory_tracker.current_block_count)
             IN
             IF i # -1
             THEN \E outcome \in free_outcomes(heap, memory) :
                    /\ g_memory_tracker' =
                         [blocks |-> [g_memory_tracker.blocks EXCEPT ![i] =
                                         IF outcome = "abort"
                                         THEN [block EXCEPT !.status = MEMORY_STATUS_FREED]
                                         ELSE ClearedBlock(block)],
                          current_block_count |-> count,
                          total_allocated_memory |-> total]
                    /\ heap' = heap_after_free(heap, memory)
                    /\ halted' = (outcome = "abort")
                    /\ FreeReturn(memory, "tracked", <<memory>>, outcome # "released")
                    /\ UNCHANGED timestamp
             ELSE \E outcome \in free_outcomes(heap, memory) :
                    /\ heap' = heap_after_free(heap, memory)
                    /\ halted' = (outcome = "abort")
                    /\ FreeReturn(memory, "untracked", <<memory>>, outcome # "released")
                    /\ UNCHANGED <<g_memory_tracker, timestamp>>

generate_memory_report ==
    /\ ~halted
    /\ last' = Call("report", 0, NULL, "report", 0, << >>, FALSE, "null", FALSE,
                    [count |-> g_memory_tracker.current_block_count,
                     total |-> g_memory_tracker.total_allocated_memory,
                     entries |-> ReportEntries(g_memory_tracker.blocks)])
    /\ streak' = -1
    /\ scenario' = NoScenario
    /\ recover' = NoRecover
    /\ UNCHANGED <<g_memory_tracker, timestamp, heap, halted, returned, foreign,
                   orphaned, grant, net, freed, stamped>>

\* The table tracker alone, every call atomic.
Next ==
    \/ memory_manager_init /\ UNCHANGED <<frame, tool_tracker, tool_last>>
    \/ safe_memory_allocate /\ UNCHANGED <<frame, tool_tracker, tool_last>>
    \/ safe_memory_free /\ UNCHANGED <<frame, tool_tracker, tool_last>>
    \/ generate_memory_report /\ UNCHANGED <<frame, tool_tracker, tool_last>>

Spec == Init /\ [][Next]_vars

\* ------------------------------- safe_memory_free, statement by statement
\* The statements of the found branch of safe_memory_free, in source order:
\* total_allocated_memory -= size; current_block_count--; status = FREED;
\* free(memory); memset(block, 0, ...).
FreeOrder_release_first == <<"release", "total", "count", "status", "clear">>

FreeOrder == <<"total", "count", "status", "release", "clear">>

\* Entry of safe_memory_free for a handle the lookup loop finds.
free_enter ==
    /\ ~halted /\ frame = NoFrame
    /\ \E memory \in Addr :
        LET i == FindBlock(g_memory_tracker.blocks, memory) IN
        /\ i # -1
        /\ frame' = [memory |-> memory, i |-> i, next |-> 1,
                     handle |-> HandleClass(memory), twice |-> FreedTwice(memory),
                     released |-> FALSE, bad |-> FALSE,
                     total0 |-> g_memory_tracker.total_allocated_memory,
                     count0 |-> g_memory_tracker.current_block_count,
                     size0 |-> g_memory_tracker.blocks[i].size]
        /\ FreeHistory(memory, "tracked")
    /\ UNCHANGED <<g_memory_tracker, timestamp, heap, halted, last, tool_tracker,
                   tool_last>>

\* The next statement of the found branch.
free_statement ==
    /\ ~halted /\ frame # NoFrame /\ frame.next <= Len(FreeOrder)
    /\ LET statement == FreeOrder[frame.next]
           block == g_memory_tracker.blocks[frame.i]
       IN
       IF statement = "release"
       THEN \E outcome \in free_outcomes(heap, frame.memory) :
                /\ heap' = heap_after_free(heap, frame.memory)
                /\ halted' = (outcome = "abort")
                /\ frame' = [frame EXCEPT !.next = @ + 1, !.released = TRUE,
                                          !.bad = (outcome # "released")]
                /\ UNCHANGED g_memory_tracker
       ELSE /\ g_memory_tracker' =
                 IF statement = "total"
                 THEN [g_memory_tracker EXCEPT !.total_allocated_memory =
                          TotalAfterFree(@, block.size)]
                 ELSE IF statement = "count"
                 THEN [g_memory_tracker EXCEPT !.current_block_count = CountAfterFree(@)]
                 ELSE IF statement = "status"
                 THEN [g_memory_tracker EXCEPT !.blocks[frame.i].status =
                          MEMORY_STATUS_FREED]
                 ELSE [g_memory_tracker EXCEPT !.blocks[frame.i] = ClearedBlock(block)]
            /\ frame' = [frame EXCEPT !.next = @ + 1]
            /\ UNCHANGED <<heap, halted>>
    /\ UNCHANGED <<timestamp, last, returned, foreign, orphaned, grant, net, streak,
                   scenario, freed, stamped, recover, tool_tracker, tool_last>>

\* The return of the found branch.
free_return ==
    /\ ~halted /\ frame # NoFrame /\ frame.next > Len(FreeOrder)
    /\ last' = FreeRecord(frame.memory, "tracked",
                          IF frame.released THEN <<frame.memory>> ELSE << >>,
                          frame.bad, frame.handle, frame.twice)
    /\ frame' = NoFrame
    /\ UNCHANGED <<g_memory_tracker, timestamp, heap, halted, returned, foreign,
                   orphaned, grant, net, streak, scenario, freed, stamped, recover,
                   tool_tracker, tool_last>>

\* The table tracker, single-threaded, with the found branch of
\* safe_memory_free taken one statement at a time.
NextSteps ==
    \/ /\ frame = NoFrame /\ memory_manager_init
       /\ UNCHANGED <<frame, tool_tracker, tool_last>>
    \/ /\ frame = NoFrame /\ safe_memory_allocate
       /\ UNCHANGED <<frame, tool_tracker, tool_last>>
    \/ /\ frame = NoFrame /\ safe_memory_free /\ last'.path # "tracked"
       /\ UNCHANGED <<frame, tool_tracker, tool_last>>
    \/ /\ frame = NoFrame /\ generate_memory_report
       /\ UNCHANGED <<frame, tool_tracker, tool_last>>
    \/ free_enter
    \/ free_statement
    \/ free_return

SpecSteps == Init /\ [][NextSteps]_vars

\* ------------------------------- the linked-list tracker, side by side
\* memory_management_tool.c keeps one node per allocation in a list whose
\* head is g_memory_tracker; tool_tracker is that list, head first.
ToolNode(pointer, size, type) == [pointer |-> pointer, size |-> size, type |-> type]

\* safe_memory_allocate of the list tracker: a zero size returns NULL, a NULL
\* from malloc ends the process, otherwise a node is linked at the head and the
\* memory is returned.
tool_safe_memory_allocate(list, size, type, allocated_memory) ==
    IF size = 0 THEN [list |-> list, ret |-> NULL, exit |-> FALSE]
    ELSE IF allocated_memory = NULL THEN [list |-> list, ret |-> NULL, exit |-> TRUE]
    ELSE [list |-> <<ToolNode(allocated_memory, size, type)>> \o list,
          ret |-> allocated_memory, exit |-> FALSE]

\* A free that unlinks a node only when it is the head of the list.
tool_unlink_head_only(list, memory) ==
    IF list # << >> /\ list[1].pointer = memory THEN Tail(list) ELSE list

\* The search loop of the list tracker's safe_memory_free: the first node
\* whose pointer is the handle is unlinked, and the loop stops.
RECURSIVE tool_unlink(_, _)
tool_unlink(list, memory) ==
    IF list = << >> THEN << >>
    ELSE IF list[1].pointer = memory THEN Tail(list)
    ELSE <<list[1]>> \o tool_unlink(Tail(list), memory)

\* safe_memory_free of the list tracker, its effect on the list: NULL returns
\* at once; otherwise the node is unlinked and free(memory) is reached found or
\* not.
tool_safe_memory_free(list, memory) ==
    IF memory = NULL THEN list ELSE tool_unlink(list, memory)

\* The traversal of the list tracker's generate_memory_report.
RECURSIVE tool_generate_memory_report(_)
tool_generate_memory_report(list) ==
    IF list = << >> THEN [block_count |-> 0, total_allocated |-> 0]
    ELSE LET rest == tool_generate_memory_report(Tail(list)) IN
         [block_count |-> rest.block_count + 1,
          total_allocated |-> SizeT(rest.total_allocated + list[1].size)]

\* One allocate call made to both trackers, the list tracker's malloc giving
\* what the table tracker's gave; calls at capacity and allocator failures
\* are left out.
pair_allocate ==
    /\ ~halted
    /\ \E request \in Requests :
        /\ allocate_call(request[1], request[2])
        /\ last'.path \in {"zero", "ok"}
        /\ LET result == tool_safe_memory_allocate(tool_tracker, request[1],
                                                   request[2], last'.ret)
           IN /\ tool_tracker' = result.list
              /\ tool_last' = [NoToolCall EXCEPT !.ret = result.ret]
    /\ UNCHANGED frame

\* One free call made to both trackers.
pair_free ==
    /\ safe_memory_free
    /\ tool_tracker' = tool_safe_memory_free(tool_tracker, last'.arg)
    /\ tool_last' = NoToolCall
    /\ UNCHANGED frame

\* One report asked of both trackers.
pair_report ==
    /\ generate_memory_report
    /\ tool_last' = [NoToolCall EXCEPT
           !.block_count = tool_generate_memory_report(tool_tracker).block_count,
           !.total_allocated = tool_generate_memory_report(tool_tracker).total_allocated]
    /\ UNCHANGED <<frame, tool_tracker>>

NextPair ==
    \/ pair_allocate
    \/ pair_free
    \/ pair_report

SpecPair == Init /\ [][NextPair]_vars

\* ------------------------------------------------------------ properties
OccupiedSlots(blocks) == {i \in Slots : blocks[i].pointer # NULL}

RECURSIVE SumSizes(_, _)
SumSizes(blocks, i) ==
    IF i >= MAX_TRACKED_BLOCKS THEN 0
    ELSE (IF blocks[i].pointer # NULL THEN blocks[i].size ELSE 0) + SumSizes(blocks, i + 1)

\* Handles granted since the last init and not yet released by a tracked free.
Outstanding == {a \in Addr : grant[a] # 0}

\* C1 (aggregate consistency): whenever an operation has returned,
\* total_allocated_memory is the sum of size over the slots whose pointer is
\* non-null and current_block_count is the number of such slots.
C1_AggregateConsistency ==
    halted \/
        /\ get_total_allocated_memory = SumSizes(g_memory_tracker.blocks, 0)
        /\ get_current_block_count = Cardinality(OccupiedSlots(g_memory_tracker.blocks))

\* A double free has returned and the table still holds a record.
C1_Witness ==
    /\ ~halted
    /\ last.op = "free" /\ last.path = "untracked" /\ last.handle = "stale"
    /\ get_current_block_count = 1
    /\ get_total_allocated_memory = 50

\* C2 (double-free safety): when safe_memory_free(h) is called twice in a
\* row for a handle h that safe_memory_allocate returned, the second call
\* finds no slot, takes the untracked path and leaves the counters and every
\* slot as they were.
C2_DoubleFreeLeavesTable ==
    [][(last'.op = "free" /\ last'.twice /\ last'.arg \in returned)
        => /\ last'.path = "untracked"
           /\ g_memory_tracker' = g_memory_tracker]_vars

\* The second of two frees in a row of a handle whose first free was tracked.
C2_Witness ==
    /\ last.op = "free" /\ last.twice /\ last.arg \in returned
    /\ last.path = "untracked" /\ last.badRelease

\* C3 (no double release): as long as safe_memory_free is only given handles
\* that safe_memory_allocate returned, every release the tracker issues
\* targets an address that is live in the underlying allocator.
C3_NoDoubleRelease == foreign \/ ~last.badRelease

\* C4 (capacity boundary): from an initialized empty table,
\* MAX_TRACKED_BLOCKS consecutive allocate calls with size > 0 and no
\* allocator failure all succeed; the next one returns an empty handle,
\* attempts no acquisition and leaves the tracker and the allocator unchanged.
C4_CapacityBoundary ==
    [][/\ streak' \in 1 .. MAX_TRACKED_BLOCKS
            => /\ last'.path = "ok" /\ last'.ret # NULL
               /\ get_current_block_count' = streak'
       /\ streak' = MAX_TRACKED_BLOCKS + 1
            => /\ last'.ret = NULL /\ last'.mallocs = 0 /\ last'.releases = << >>
               /\ heap' = heap
               /\ g_memory_tracker' = g_memory_tracker]_vars

\* The allocate call after MAX_TRACKED_BLOCKS successful ones has failed.
C4_Witness ==
    /\ streak = MAX_TRACKED_BLOCKS + 1
    /\ last.op = "allocate" /\ last.path = "full" /\ last.arg # 0
    /\ get_current_block_count = MAX_TRACKED_BLOCKS

\* C5 (usage warnings are no-ops): allocate with size 0 returns an empty
\* handle, free of a null handle returns, and neither changes a slot, a
\* counter or the set of live allocations, nor calls the allocator.
C5_UsageWarningsNoOp ==
    [][(\/ last'.op = "allocate" /\ last'.arg = 0
        \/ last'.op = "free" /\ last'.arg = NULL)
        => /\ last'.ret = NULL /\ ~halted'
           /\ last'.mallocs = 0 /\ last'.releases = << >>
           /\ g_memory_tracker' = g_memory_tracker
           /\ heap' = heap]_vars

\* A zero-size request has returned with a record in the table.
C5_Witness ==
    /\ last.op = "allocate" /\ last.arg = 0 /\ last.path = "zero"
    /\ get_current_block_count = 1

\* C6 (untracked-pointer free): freeing a non-null handle that is live in the
\* allocator but in no slot takes the untracked path, releases it exactly
\* once and leaves the tracker unchanged.
C6_UntrackedFree ==
    [][(/\ last'.op = "free" /\ last'.arg # NULL
        /\ last'.arg \in heap
        /\ last'.arg \notin Tracked(g_memory_tracker.blocks))
        => /\ last'.path = "untracked"
           /\ last'.releases = <<last'.arg>> /\ ~last'.badRelease
           /\ heap' = heap \ {last'.arg}
           /\ ~halted'
           /\ g_memory_tracker' = g_memory_tracker]_vars

\* The caller's own allocation has been freed through the tracker while the
\* table holds a record.
C6_Witness ==
    /\ last.op = "free" /\ last.handle = "extern" /\ last.path = "untracked"
    /\ last.releases = <<last.arg>> /\ last.arg \notin heap
    /\ get_current_block_count = 1

\* C7 (real out-of-memory is fatal): when the allocator fails a request with
\* size > 0 below capacity, the process halts there, tracker unmodified.
C7_OutOfMemoryHalts ==
    [][(last'.op = "allocate" /\ last'.path = "oom")
        => /\ halted'
           /\ g_memory_tracker' = g_memory_tracker]_vars

\* C8 (initialize discards tracking only): memory_manager_init empties every
\* slot, zeroes both counters and releases nothing; the next free of a
\* handle that was tracked when it ran takes the untracked path, releases
\* the memory and leaves the counters unchanged.
C8_InitDiscardsTracking ==
    [][/\ last'.op = "init"
            => /\ \A i \in Slots : g_memory_tracker'.blocks[i] = EmptyBlock
               /\ get_current_block_count' = 0
               /\ get_total_allocated_memory' = 0
               /\ heap' = heap /\ last'.releases = << >>
       /\ (last'.op = "free" /\ last'.handle = "orphan")
            => /\ last'.path = "untracked"
               /\ last'.arg \in heap /\ last'.arg \notin heap'
               /\ get_current_block_count' = get_current_block_count
               /\ get_total_allocated_memory' = get_total_allocated_memory]_vars

\* A handle tracked before a re-initialization has been freed after it, with
\* a newer record in the table.
C8_Witness ==
    /\ last.op = "free" /\ last.handle = "orphan" /\ last.path = "untracked"
    /\ last.arg \in returned /\ last.arg \notin heap
    /\ get_current_block_count = 1

ReportComplete(out) ==
    /\ Len(out.entries) = net
    /\ \A k \in 1 .. Len(out.entries) - 1 :
            out.entries[k].index < out.entries[k + 1].index
    /\ {out.entries[k].index : k \in 1 .. Len(out.entries)}
            = OccupiedSlots(g_memory_tracker.blocks)
    /\ \A k \in 1 .. Len(out.entries) :
            LET e == out.entries[k] IN
            /\ e.index \in Slots
            /\ e.pointer = g_memory_tracker.blocks[e.index].pointer
            /\ e.size = g_memory_tracker.blocks[e.index].size
            /\ e.size = grant[e.pointer]
    /\ {out.entries[k].pointer : k \in 1 .. Len(out.entries)} = Outstanding
    /\ out.count = get_current_block_count
    /\ out.total = get_total_allocated_memory

\* C9 (report completeness): after N successful allocates and M tracked
\* frees since the last init, the report lists N - M entries in ascending
\* slot order, one per occupied slot, whose addresses are the handles
\* granted and not yet released, with the current counters; it changes
\* neither the table nor the counters.
C9_ReportComplete ==
    [][last'.op = "report"
        => /\ g_memory_tracker' = g_memory_tracker
           /\ heap' = heap /\ timestamp' = timestamp
           /\ ReportComplete(last.out)']_vars

\* A report after two allocations and the free of the first: one entry, for
\* slot 1.
C9_Witness ==
    /\ last.op = "report" /\ net = 1
    /\ Len(last.out.entries) = 1
    /\ last.out.entries[1].index = 1
    /\ last.out.count = 1

ScenarioExpect ==
    /\ scenario.step = 3 => get_current_block_count = 2 /\ get_total_allocated_memory = 70
    /\ scenario.step = 4 => get_current_block_count = 1 /\ get_total_allocated_memory = 50
    /\ scenario.step = 5 => get_current_block_count = 0 /\ get_total_allocated_memory = 0

\* C10 (allocate/free round trip): a successful allocate(size) raises the
\* count by 1 and the total by size; freeing a handle granted since the last
\* init lowers them by 1 and by that size and empties its slot; and
\* init; h1 = allocate(20); h2 = allocate(50); free(h1); free(h2) passes
\* through (2, 70), (1, 50) and (0, 0).
C10_RoundTrip ==
    [][/\ (last'.op = "allocate" /\ last'.ret # NULL)
            => /\ get_current_block_count' = get_current_block_count + 1
               /\ get_total_allocated_memory' = get_total_allocated_memory + last'.arg
       /\ (last'.op = "free" /\ last'.handle = "granted")
            => /\ get_current_block_count' = get_current_block_count - 1
               /\ get_total_allocated_memory'
                    = get_total_allocated_memory - grant[last'.arg]
               /\ \A i \in Slots :
                    g_memory_tracker.blocks[i].pointer = last'.arg
                        => g_memory_tracker'.blocks[i] = EmptyBlock
               /\ last'.arg \notin Tracked(g_memory_tracker'.blocks)
       /\ ScenarioExpect']_vars

\* The round trip has run to its end.
C10_Witness ==
    /\ scenario.step = 5
    /\ last.op = "free" /\ last.handle = "granted" /\ last.arg = scenario.h2
    /\ get_current_block_count = 0

\* C11, as claimed (second free is always an untracked free): once a handle
\* that allocate returned has been passed to safe_memory_free, every later
\* safe_memory_free of it takes the untracked path and leaves the tracker
\* unchanged, whatever was called in between.
C11_SecondFreeAlwaysUntracked ==
    [][(last'.op = "free" /\ last'.arg # NULL /\ freed[last'.arg] # "no")
        => /\ last'.path = "untracked"
           /\ g_memory_tracker' = g_memory_tracker]_vars

\* C11, amended: the same, provided no safe_memory_allocate has returned the
\* address again since the handle was freed.
C11_SecondFreeUntrackedUnlessRegranted ==
    [][(last'.op = "free" /\ last'.arg # NULL /\ freed[last'.arg] = "spent")
        => /\ last'.path = "untracked"
           /\ g_memory_tracker' = g_memory_tracker]_vars

\* A second free of a handle, not right after the first, with a record of
\* another handle in the table.
C11_Witness ==
    /\ last.op = "free" /\ last.path = "untracked" /\ last.handle = "stale"
    /\ ~last.twice /\ last.arg \in returned /\ freed[last.arg] = "spent"
    /\ get_current_block_count = 1

\* C12 (first-fit slot selection): a successful allocate writes its record
\* into the lowest-indexed slot that was empty before the call and changes
\* no other slot.
C12_FirstFit ==
    [][(last'.op = "allocate" /\ last'.ret # NULL)
        => \E s \in Slots :
            /\ g_memory_tracker.blocks[s].pointer = NULL
            /\ \A j \in Slots : j < s => g_memory_tracker.blocks[j].pointer # NULL
            /\ g_memory_tracker'.blocks[s].pointer = last'.ret
            /\ g_memory_tracker'.blocks[s].size = last'.arg
            /\ \A j \in Slots \ {s} :
                    g_memory_tracker'.blocks[j] = g_memory_tracker.blocks[j]]_vars

\* Slot 0 was vacated and has been used again while a higher slot is empty.
C12_Witness ==
    /\ last.op = "allocate" /\ last.path = "ok"
    /\ g_memory_tracker.blocks[0].pointer = last.ret
    /\ g_memory_tracker.blocks[0].timestamp = 2
    /\ g_memory_tracker.blocks[MAX_TRACKED_BLOCKS - 1].pointer = NULL

\* C13 (address uniqueness): no two occupied slots hold the same address.
C13_AddressUnique ==
    \A i, j \in OccupiedSlots(g_memory_tracker.blocks) :
        g_memory_tracker.blocks[i].pointer = g_memory_tracker.blocks[j].pointer => i = j

\* Two records in the table when a double free has returned.
C13_Witness ==
    /\ ~halted /\ get_current_block_count = 2
    /\ last.op = "free" /\ last.handle = "stale" /\ last.twice

RecordsWellFormed ==
    \A i \in Slots :
        LET block == g_memory_tracker.blocks[i] IN
        /\ block.status # MEMORY_STATUS_CORRUPTED
        /\ ~halted /\ block.pointer # NULL
            => block.status = MEMORY_STATUS_ALLOCATED /\ block.size >= 1
        /\ ~halted => block.status # MEMORY_STATUS_FREED

\* C14 (per-record state machine): after every operation an occupied slot
\* has status Allocated and size >= 1; a slot goes from empty to occupied
\* only by a successful allocate, from occupied to empty only by the free
\* that found it or by init, and is otherwise left alone; Corrupted is never
\* assigned and no slot stays occupied with status Freed.
C14_RecordStateMachine ==
    [][/\ RecordsWellFormed'
       /\ \A i \in Slots :
            LET before == g_memory_tracker.blocks[i]
                after == g_memory_tracker'.blocks[i]
            IN
            /\ (before.pointer = NULL /\ after.pointer # NULL)
                => last'.op = "allocate" /\ last'.ret = after.pointer
            /\ (before.pointer # NULL /\ after.pointer = NULL)
                => \/ last'.op = "init"
                   \/ /\ last'.op = "free" /\ last'.path = "tracked"
                      /\ last'.arg = before.pointer
            /\ (before.pointer # NULL /\ after.pointer # NULL)
                => after = before
            /\ (before.pointer = NULL /\ after.pointer = NULL)
                => after = EmptyBlock]_vars

\* Two records have gone from Allocated to Free by a re-initialization.
C14_Witness ==
    /\ last.op = "init" /\ Cardinality(orphaned) = 2
    /\ get_current_block_count = 0

StoredTimestamps ==
    {g_memory_tracker.blocks[i].timestamp : i \in OccupiedSlots(g_memory_tracker.blocks)}

\* C16 (sequence monotonicity): the timestamp a successful allocate stores
\* is greater than every timestamp stored before, also across init; failed
\* allocates and init leave the counter alone; occupied slots carry pairwise
\* distinct timestamps.
C16_TimestampsIncrease ==
    [][/\ (last'.op = "allocate" /\ last'.ret # NULL)
            => /\ stamped' > stamped
               /\ \A t \in StoredTimestamps : t < stamped'
       /\ (last'.op = "allocate" /\ last'.ret = NULL) => timestamp' = timestamp
       /\ last'.op = "init" => timestamp' = timestamp
       /\ Cardinality(StoredTimestamps')
            = Cardinality(OccupiedSlots(g_memory_tracker'.blocks))]_vars

\* An allocation after a re-initialization carries the next timestamp, not
\* the first one.
C16_Witness ==
    /\ last.op = "allocate" /\ last.path = "ok" /\ orphaned # {}
    /\ get_current_block_count = 1
    /\ g_memory_tracker.blocks[0].timestamp = 2 /\ stamped = 2

\* C17 (tracking exhaustion is recoverable): after an allocate that failed
\* at capacity, the free of a tracked handle followed by a non-failing
\* allocate with size > 0 succeeds, its record is in the slot the free
\* vacated, and the count is MAX_TRACKED_BLOCKS again.
C17_ExhaustionRecoverable ==
    [][(/\ recover.step = 2
        /\ last'.op = "allocate" /\ last'.arg # 0 /\ last'.path # "oom")
        => /\ last'.ret # NULL
           /\ g_memory_tracker'.blocks[recover.slot].pointer = last'.ret
           /\ \A j \in Slots \ {recover.slot} :
                g_memory_tracker'.blocks[j] = g_memory_tracker.blocks[j]
           /\ get_current_block_count' = MAX_TRACKED_BLOCKS]_vars

\* Fail at capacity, free, allocate: the allocate has succeeded.
C17_Witness ==
    /\ recover.step = 3
    /\ last.op = "allocate" /\ last.path = "ok"
    /\ g_memory_tracker.blocks[recover.slot].pointer = last.ret

\* C19 (the no-slot branch is unreachable): whenever the capacity check
\* passes, find_available_slot returns a valid index; the slot == -1 branch
\* is never taken, and an allocate that obtained memory returns it tracked.
C19_NoSlotUnreachable ==
    /\ last.path # "noslot"
    /\ ~CapacityReached(get_current_block_count)
        => find_available_slot(g_memory_tracker.blocks) \in Slots
    /\ (last.op = "allocate" /\ last.mallocs = 1 /\ last.path # "oom")
        => /\ last.ret # NULL
           /\ last.ret \in Tracked(g_memory_tracker.blocks)

\* The allocation that fills the last slot of the table has succeeded.
C19_Witness ==
    /\ last.op = "allocate" /\ last.path = "ok" /\ last.mallocs = 1
    /\ get_current_block_count = MAX_TRACKED_BLOCKS
    /\ g_memory_tracker.blocks[MAX_TRACKED_BLOCKS - 1].pointer = last.ret

\* C20 (tracked memory is live memory): after every operation the address
\* of every occupied slot is live in the underlying allocator.
C20_TrackedIsLive ==
    halted \/ Tracked(g_memory_tracker.blocks) \subseteq heap

\* A double free has returned with an orphaned allocation outstanding and a
\* record in the table.
C20_Witness ==
    /\ ~halted /\ last.op = "free" /\ last.handle = "stale" /\ last.twice
    /\ orphaned # {} /\ get_current_block_count = 1
    /\ Tracked(g_memory_tracker.blocks) \subseteq heap

\* C15 (free ordering): within a safe_memory_free that found a record, once
\* the real memory has been released both counters have already been
\* decremented, and the slot is not cleared before the memory is released.
C15_FreeOrdering ==
    frame # NoFrame =>
        /\ frame.released
            => /\ get_total_allocated_memory = SizeT(frame.total0 - frame.size0)
               /\ get_current_block_count = SizeT(frame.count0 - 1)
        /\ g_memory_tracker.blocks[frame.i].pointer = NULL => frame.released

\* The memory has been released, the slot is not yet cleared, and the
\* counters no longer include the record.
C15_Witness ==
    /\ frame # NoFrame /\ frame.released /\ ~frame.bad
    /\ frame.memory \notin heap
    /\ g_memory_tracker.blocks[frame.i].pointer = frame.memory
    /\ g_memory_tracker.blocks[frame.i].status = MEMORY_STATUS_FREED
    /\ get_current_block_count = frame.count0 - 1

\* The (address, size) records each tracker holds.
TableRecords ==
    {<<g_memory_tracker.blocks[i].pointer, g_memory_tracker.blocks[i].size>> :
        i \in OccupiedSlots(g_memory_tracker.blocks)}

ToolRecords ==
    {<<tool_tracker[k].pointer, tool_tracker[k].size>> : k \in 1..Len(tool_tracker)}

\* C18 (linked-list variant equivalence): run side by side below capacity,
\* without allocator failure or re-initialization, the list tracker returns
\* the handle the table tracker returns and after every operation holds the
\* same (address, size) records, one node per record, so the count and total
\* its report computes by traversal are the table's current_block_count and
\* total_allocated_memory.
C18_ListEquivalent ==
    /\ last.op = "allocate" => tool_last.ret = last.ret
    /\ ToolRecords = TableRecords
    /\ Len(tool_tracker) = Cardinality(OccupiedSlots(g_memory_tracker.blocks))
    /\ tool_generate_memory_report(tool_tracker).block_count = get_current_block_count
    /\ tool_generate_memory_report(tool_tracker).total_allocated
           = get_total_allocated_memory
    /\ last.op = "report"
        => /\ tool_last.block_count = last.out.count
           /\ tool_last.total_allocated = last.out.total

\* Both trackers report two blocks after a free and a new allocation: the
\* newest block, at the head of the list, is in the table's reused slot 0.
C18_Witness ==
    /\ last.op = "report" /\ tool_last.block_count = 2
    /\ \E a \in Addr : freed[a] = "spent"
    /\ tool_tracker[1].pointer = g_memory_tracker.blocks[0].pointer
    /\ tool_tracker[2].pointer = g_memory_tracker.blocks[1].pointer

====
